---- MODULE Spec2Model ----
(***************************************************************************)
(* Model of the chat assistant of acai-travel-challenge: the tool registry *)
(* (internal/tools), Assistant.Title and Assistant.Reply                   *)
(* (internal/chat/assistant) and the StartConversation coordinator         *)
(* (internal/chat/server.go, documented in README.md).                     *)
(*                                                                         *)
(* Go strings that the code inspects (contents, titles) are sequences of   *)
(* one-character strings; tool names, argument payloads and error texts    *)
(* are compared only for equality and are TLA+ strings.  A string built by *)
(* concatenation ("unknown tool: "+name) is the sequence of its pieces.    *)
(***************************************************************************)
EXTENDS Integers, Sequences, FiniteSets, TLC

VARIABLES
    conv,         \* the *model.Conversation handed to Title / Reply: [title, messages]
    registry,     \* tools.registry: the registered tools in registration order
    script,       \* the model backend's tool-call response: [content, calls]
    rPc,          \* Reply: "idle" | "loop" | "tools" | "done"
    i,            \* Reply: the loop counter of `for i := 0; i < 15; i++`
    msgs,         \* Reply: the running message list
    toolDefs,     \* Reply: the tool catalog passed to the model
    message,      \* Reply: resp.Choices[0].Message of the round in progress
    j,            \* Reply: index of the next call of `range message.ToolCalls`
    rRet,         \* Reply: the returned (string, error)
    rResp,        \* Reply: resp, err of its latest Chat.Completions.New call
    rSent,        \* Reply: the Messages of its latest Chat.Completions.New call
    nModelCalls,  \* number of Chat.Completions.New calls issued by Reply
    invoked,      \* ids of the tool calls for which t.Call was invoked, in order
    titleResp,    \* the model backend's answer to Title's call: [err, choices]
    tPc,          \* Title: "idle" | "call" | "done"
    tSent,        \* Title: the Messages of its Chat.Completions.New call
    tRet,         \* Title: the returned (string, error)
    nTitleCalls,  \* number of Chat.Completions.New calls issued by Title
    req,          \* StartConversation: the request's message
    assist,       \* the Assistant implementation behind s.assist: "real" | "fake"
    sPc,          \* StartConversation: the handler's position
    gtPc,         \* the title goroutine: "none" | "ready" | "calling" | "exit"
    grPc,         \* the reply goroutine: "none" | "ready" | "calling" | "exit"
    titleCh,      \* the buffered channel titleCh
    replyCh,      \* the buffered channel replyCh
    sTitle,       \* StartConversation: title, as received from titleCh
    sReply,       \* StartConversation: replyResult, as received from replyCh
    store,        \* the conversations handed to the persistence collaborator
    sResp,        \* StartConversation: the response or error returned
    ctxDone,      \* ctx: TRUE once the caller has cancelled it
    regLog,       \* the arguments of the Register calls made, in call order
    found,        \* the latest FindByName call: [name, tool]
    fIn,          \* the forecast tool called on its own: [args, key]
    fOut          \* its request to the provider and its result: [req, ret]

replyVars == <<rPc, i, msgs, toolDefs, message, j, rRet, rResp, rSent, nModelCalls, invoked>>
titleVars == <<tPc, tSent, tRet, nTitleCalls>>
coordVars == <<sPc, gtPc, grPc, titleCh, replyCh, sTitle, sReply, store, sResp>>
envVars == <<registry, script, titleResp, req, assist, ctxDone, regLog, found, fIn, fOut>>
vars == <<conv, registry, script, titleResp, req, assist, ctxDone, regLog, found, fIn, fOut,
          rPc, i, msgs, toolDefs, message, j, rRet, rResp, rSent, nModelCalls, invoked,
          tPc, tSent, tRet, nTitleCalls,
          sPc, gtPc, grPc, titleCh, replyCh, sTitle, sReply, store, sResp>>

(***************************************************************************)
(* Bounds of the model.                                                    *)
(***************************************************************************)
MaxCalls == 2        \* tool calls in one model response
MaxConvLen == 2      \* messages of a conversation handed to Title
MaxRawLen == 2       \* characters of a short raw title returned by the backend
MaxTools == 3        \* Register calls

(***************************************************************************)
(* Values.                                                                 *)
(***************************************************************************)
Nil == "nil"                                   \* a nil error / nil Tool
Empty == << >>                                 \* the empty string ""

RoleUser == "user"
RoleAssistant == "assistant"
RoleTool == "tool"
RoleSystem == "system"

Msg(role, content) == [role |-> role, content |-> content]

\* openai.SystemMessage / UserMessage / AssistantMessage / ToolMessage / ToParam
Param(role, content, id, calls) ==
    [role |-> role, content |-> content, tool_call_id |-> id, tool_calls |-> calls]
NoId == << >>
SystemMessage(c) == Param(RoleSystem, c, NoId, << >>)
UserMessage(c) == Param(RoleUser, c, NoId, << >>)
AssistantMessage(c) == Param(RoleAssistant, c, NoId, << >>)
ToolMessage(c, id) == Param(RoleTool, c, id, << >>)
ToParam(m) == Param(RoleAssistant, m.content, NoId, m.tool_calls)

\* The (string, error) a call returns; NoRet while it has not returned.
NotCalled == [err |-> Nil, choices |-> << >>]
NoRet == [val |-> Empty, err |-> "pending"]
Ret(val, err) == [val |-> val, err |-> err]

\* Error values of the code and of its collaborators.
BackendErr == "openai: request failed"
NoMessagesErr == "conversation has no messages"
NoChoicesErr == "no choices returned by OpenAI"
TooManyErr == "too many tool calls, unable to generate reply"
JsonErr == "unexpected end of JSON input"
CanceledErr == "context canceled"
MissingKeyErr == "missing WEATHER_API_KEY environment variable"
MissingLocationErr == "missing location parameter"
ProviderErr == "weatherapi error: No matching location found. (code 1006)"

MaxRounds == 15

(***************************************************************************)
(* internal/tools: the registry and two of the registered tools.           *)
(***************************************************************************)
ToolTodayDate == [name |-> "get_today_date", impl |-> "ToolTodayDate"]
ToolWeatherForecast == [name |-> "get_weather_forecast", impl |-> "ToolWeatherForecast"]

\* The registry after the init() functions have run.
InitRegistry == <<ToolWeatherForecast, ToolTodayDate>>

AllTools == registry

NilTool == [name |-> "", impl |-> Nil]

RECURSIVE FindFrom(_, _)
FindFrom(k, name) ==
    IF k > Len(registry) THEN NilTool
    ELSE IF registry[k].name = name THEN registry[k]
    ELSE FindFrom(k + 1, name)

\* A lookup that matches names up to the case of their letters.
Fold(name) == IF name = "GET_TODAY_DATE" THEN "get_today_date" ELSE name

RECURSIVE FindFromFold(_, _)
FindFromFold(k, name) ==
    IF k > Len(registry) THEN NilTool
    ELSE IF Fold(registry[k].name) = Fold(name) THEN registry[k]
    ELSE FindFromFold(k + 1, name)

FindByNameFold(name) == FindFromFold(1, name)

FindByName(name) == FindFrom(1, name)

\* A second tool under the name of ToolTodayDate.
ToolTodayDateB == [name |-> "get_today_date", impl |-> "ToolTodayDateB"]
Tools == {ToolWeatherForecast, ToolTodayDate, ToolTodayDateB}

\* A Register that keeps one tool per name.
RECURSIVE Without(_, _)
Without(reg, name) ==
    IF Len(reg) = 0 THEN << >>
    ELSE IF Head(reg).name = name THEN Without(Tail(reg), name)
    ELSE <<Head(reg)>> \o Without(Tail(reg), name)

RegisterReplace(t) ==
    /\ Len(registry) < MaxTools
    /\ rPc = "idle"
    /\ registry' = Append(Without(registry, t.name), t)
    /\ regLog' = Append(regLog, t)
    /\ UNCHANGED <<script, titleResp, req, assist, ctxDone, found, fIn, fOut>>
    /\ UNCHANGED <<conv, replyVars, titleVars, coordVars>>

\* Register(t), called from the init() of a tool's file, before any request.
Register(t) ==
    /\ Len(registry) < MaxTools
    /\ rPc = "idle"
    /\ registry' = Append(registry, t)
    /\ regLog' = Append(regLog, t)
    /\ UNCHANGED <<script, titleResp, req, assist, ctxDone, found, fIn, fOut>>
    /\ UNCHANGED <<conv, replyVars, titleVars, coordVars>>

\* A call of FindByName; `at` is the number of tools registered at the call.
NotLooked == [name |-> "", tool |-> NilTool, at |-> 0]
LookupNames ==
    {"get_today_date", "GET_TODAY_DATE", "get_today", "get_today_date_v2",
     "get_weather_forecast"}

Lookup(name) ==
    /\ found' = [name |-> name, tool |-> FindByName(name), at |-> Len(registry)]
    /\ UNCHANGED <<registry, script, titleResp, req, assist, ctxDone, regLog, fIn, fOut>>
    /\ UNCHANGED <<conv, replyVars, titleVars, coordVars>>

RegistryReady ==
    /\ registry = InitRegistry
    /\ regLog = InitRegistry
    /\ found = NotLooked

\* Argument payloads the model sends, and json.Unmarshal into map[string]any.
ArgsBad == "{\"location\":"
ArgsEmpty == "{}"
ArgsLoc == "{\"location\":\"Bangkok\"}"
ArgsNowhere == "{\"location\":\"Atlantis\"}"
ArgPayloads == {ArgsBad, ArgsEmpty, ArgsLoc, ArgsNowhere}

NoArgs == [k \in {} |-> ""]

Unmarshal(payload) ==
    IF payload = ArgsEmpty THEN [err |-> Nil, args |-> NoArgs]
    ELSE IF payload = ArgsLoc THEN [err |-> Nil, args |-> [k \in {"location"} |-> "Bangkok"]]
    ELSE IF payload = ArgsNowhere
    THEN [err |-> Nil, args |-> [k \in {"location"} |-> "Atlantis"]]
    ELSE [err |-> JsonErr, args |-> NoArgs]

\* The weather provider knows the locations of KnownLocations and answers
\* HTTP 400 for any other.
KnownLocations == {"Bangkok"}

\* Tool.Call: (string, error).
ToolOut(impl) == <<"out of ", impl>>

ToolCall(t, args) ==
    IF t.impl = "ToolTodayDate" THEN [out |-> ToolOut(t.impl), err |-> Nil]
    ELSE LET location == IF "location" \in DOMAIN args THEN args["location"] ELSE ""
         IN  IF location = "" THEN [out |-> Empty, err |-> MissingLocationErr]
             ELSE IF ctxDone THEN [out |-> Empty, err |-> CanceledErr]
             ELSE IF location \notin KnownLocations THEN [out |-> Empty, err |-> ProviderErr]
             ELSE [out |-> ToolOut(t.impl), err |-> Nil]

\* ToolWeatherForecast.Call: the days argument and the request it sends.  A
\* JSON number is a float64: days are counted in tenths, and int(days) cuts
\* the fraction off.
Tenth == 10
DefaultDays == 3
MaxDays == 7
MaxDaysArg == 9      \* the largest days argument, in days

Location(args) == IF "location" \in DOMAIN args THEN args["location"] ELSE ""
DaysArg(args) == IF "days" \in DOMAIN args THEN args["days"] ELSE 0

ClampDaysLowerOnly(days) == IF days <= 0 THEN DefaultDays * Tenth ELSE days

ClampDays(days) ==
    LET d == IF days <= 0 THEN DefaultDays * Tenth ELSE days
    IN  IF d > MaxDays * Tenth THEN MaxDays * Tenth ELSE d

ToInt(f) == IF f >= 0 THEN f \div Tenth ELSE 0 - ((0 - f) \div Tenth)

NoRequest == [q |-> "", days |-> 0]
ForecastRequest(in) ==
    IF Location(in.args) = "" \/ ~in.key THEN NoRequest
    ELSE [q |-> Location(in.args), days |-> ToInt(ClampDays(DaysArg(in.args)))]

ForecastResult(in) ==
    IF Location(in.args) # "" /\ ~in.key THEN [out |-> Empty, err |-> MissingKeyErr]
    ELSE ToolCall(ToolWeatherForecast, in.args)

\* The arguments the tool is called with: days from -2 to MaxDaysArg in
\* steps of half a day, or absent.
HalfDays == {h * (Tenth \div 2) : h \in (0 - 4)..(2 * MaxDaysArg)}
ForecastArgs ==
    {[location |-> l] : l \in {"", "Bangkok", "Atlantis"}}
    \cup {[location |-> l, days |-> d] : l \in {"", "Bangkok", "Atlantis"}, d \in HalfDays}
NoForecastIn == [args |-> NoArgs, key |-> FALSE]
ForecastPending == [req |-> NoRequest, ret |-> [out |-> Empty, err |-> "pending"]]

ForecastCall ==
    /\ fOut = ForecastPending
    /\ fIn # NoForecastIn
    /\ fOut' = [req |-> ForecastRequest(fIn), ret |-> ForecastResult(fIn)]
    /\ UNCHANGED <<registry, script, titleResp, req, assist, ctxDone, regLog, found, fIn>>
    /\ UNCHANGED <<conv, replyVars, titleVars, coordVars>>

ForecastOff ==
    /\ fIn = NoForecastIn
    /\ fOut = ForecastPending

\* The caller cancels ctx while Reply runs.
CtxCancel ==
    /\ ~ctxDone
    /\ rPc \in {"idle", "loop", "tools"}
    /\ ctxDone' = TRUE
    /\ UNCHANGED <<registry, script, titleResp, req, assist, regLog, found, fIn, fOut>>
    /\ UNCHANGED <<conv, replyVars, titleVars, coordVars>>

(***************************************************************************)
(* The model backend as Reply sees it.  A response is (resp, err); a choice *)
(* carries a message [content, tool_calls].  The backend may fail, return   *)
(* no choice, return a final text, or request the tool calls of `script`    *)
(* (with ids that are fresh in every round).                                *)
(***************************************************************************)
UnknownToolName == "get_nothing"
CallShape(name, args) == [name |-> name, args |-> args]
CallShapes ==
    {CallShape(UnknownToolName, a) : a \in {ArgsBad, ArgsLoc}}
    \cup {CallShape("get_weather_forecast", a) : a \in ArgPayloads}
    \cup {CallShape("get_today_date", a) : a \in {ArgsBad, ArgsEmpty}}

RECURSIVE SeqsUpTo(_, _)
SeqsUpTo(S, n) ==
    IF n = 0 THEN {<< >>}
    ELSE LET shorter == SeqsUpTo(S, n - 1)
         IN  shorter \cup {Append(s, x) : s \in {t \in shorter : Len(t) = n - 1}, x \in S}

ReplyTexts == {Empty, <<"o", "k">>}
Scripts == [content : ReplyTexts, calls : SeqsUpTo(CallShapes, MaxCalls) \ {<< >>}]

CallId(round, k) == <<"call", round, k>>

WithIds(calls, round) ==
    [k \in 1..Len(calls) |->
        [id |-> CallId(round, k), name |-> calls[k].name, args |-> calls[k].args]]

NoMessage == [content |-> Empty, tool_calls |-> << >>]
NoScript == [content |-> Empty, calls |-> << >>]

\* A call made with a cancelled ctx fails with the error of ctx.
ModelResponses(round) ==
    IF ctxDone THEN {[err |-> CanceledErr, choices |-> << >>]}
    ELSE
    {[err |-> BackendErr, choices |-> << >>], [err |-> Nil, choices |-> << >>]}
    \cup {[err |-> Nil, choices |-> <<[content |-> c, tool_calls |-> << >>]>>] : c \in ReplyTexts}
    \cup {[err |-> Nil,
           choices |-> <<[content |-> script.content,
                          tool_calls |-> WithIds(script.calls, round)]>>]}

(***************************************************************************)
(* Assistant.Title.                                                        *)
(***************************************************************************)
EmptyConversationTitle ==
    <<"A", "n", " ", "e", "m", "p", "t", "y", " ",
      "c", "o", "n", "v", "e", "r", "s", "a", "t", "i", "o", "n">>
NewConversationTitle ==
    <<"N", "e", "w", " ", "c", "o", "n", "v", "e", "r", "s", "a", "t", "i", "o", "n">>
TitleSystemPrompt == <<"You generate concise conversation titles.">>

MaxTitleLen == 80

\* unicode.IsSpace on the characters of the model, and the cutset of strings.Trim.
SpaceChars == {" ", "\t", "\n", "\r", "\f"}
TitleCutset == {" ", "\t", "\r", "\n", "-", "\"", "'"}

RECURSIVE TrimLeft(_, _)
TrimLeft(s, cut) ==
    IF Len(s) > 0 /\ Head(s) \in cut THEN TrimLeft(Tail(s), cut) ELSE s

RECURSIVE TrimRight(_, _)
TrimRight(s, cut) ==
    IF Len(s) > 0 /\ s[Len(s)] \in cut THEN TrimRight(SubSeq(s, 1, Len(s) - 1), cut) ELSE s

Trim(s, cut) == TrimRight(TrimLeft(s, cut), cut)
TrimSpace(s) == Trim(s, SpaceChars)

\* strings.ReplaceAll(s, "\n", " ")
ReplaceNewlines(s) == [k \in 1..Len(s) |-> IF s[k] = "\n" THEN " " ELSE s[k]]

\* title[:80] when len(title) > 80
Truncate(s) == IF Len(s) > MaxTitleLen THEN SubSeq(s, 1, MaxTitleLen) ELSE s

RECURSIVE ScanUserLast(_)
ScanUserLast(ms) ==
    IF Len(ms) = 0 THEN Empty
    ELSE IF ScanUserLast(Tail(ms)) # Empty
    THEN ScanUserLast(Tail(ms))
    ELSE IF Head(ms).role = RoleUser /\ TrimSpace(Head(ms).content) # Empty
    THEN Head(ms).content
    ELSE Empty

\* The scan for the first user message with non-blank content.
RECURSIVE ScanUser(_)
ScanUser(ms) ==
    IF Len(ms) = 0 THEN Empty
    ELSE IF Head(ms).role = RoleUser /\ TrimSpace(Head(ms).content) # Empty
    THEN Head(ms).content
    ELSE ScanUser(Tail(ms))

FirstUserMessage(c) ==
    IF ScanUser(c.messages) = Empty THEN c.messages[1].content ELSE ScanUser(c.messages)

TitleMessages(c) == <<SystemMessage(TitleSystemPrompt), UserMessage(FirstUserMessage(c))>>

\* What Title returns for the backend's answer.
TitleResultPropagatesError(resp) ==
    IF resp.err # Nil THEN Ret(Empty, resp.err)
    ELSE IF Len(resp.choices) = 0 THEN Ret(NewConversationTitle, Nil)
    ELSE LET title == Trim(ReplaceNewlines(resp.choices[1].content), TitleCutset)
         IN  IF title = Empty THEN Ret(NewConversationTitle, Nil)
             ELSE Ret(Truncate(title), Nil)

TitleResultEmptyOnFailure(resp) ==
    IF resp.err # Nil \/ Len(resp.choices) = 0 THEN Ret(Empty, Nil)
    ELSE LET title == Trim(ReplaceNewlines(resp.choices[1].content), TitleCutset)
         IN  IF title = Empty THEN Ret(NewConversationTitle, Nil)
             ELSE Ret(Truncate(title), Nil)

TitleResultNoEmptyCheck(resp) ==
    IF resp.err # Nil \/ Len(resp.choices) = 0 THEN Ret(NewConversationTitle, Nil)
    ELSE Ret(Truncate(Trim(ReplaceNewlines(resp.choices[1].content), TitleCutset)), Nil)

TitleResult(resp) ==
    IF resp.err # Nil \/ Len(resp.choices) = 0 THEN Ret(NewConversationTitle, Nil)
    ELSE LET title == Trim(ReplaceNewlines(resp.choices[1].content), TitleCutset)
         IN  IF title = Empty THEN Ret(NewConversationTitle, Nil)
             ELSE Ret(Truncate(title), Nil)

TitleEnterWrongLabel ==
    /\ assist = "real"
    /\ tPc = "idle"
    /\ IF Len(conv.messages) = 0
       THEN /\ tRet' = Ret(NewConversationTitle, Nil)
            /\ tPc' = "done"
       ELSE /\ tPc' = "call"
            /\ tRet' = tRet
    /\ UNCHANGED <<tSent, nTitleCalls>>
    /\ UNCHANGED <<conv, envVars, replyVars, coordVars>>

\* Entry: the empty-conversation check.
TitleEnter ==
    /\ assist = "real"
    /\ tPc = "idle"
    /\ IF Len(conv.messages) = 0
       THEN /\ tRet' = Ret(EmptyConversationTitle, Nil)
            /\ tPc' = "done"
       ELSE /\ tPc' = "call"
            /\ tRet' = tRet
    /\ UNCHANGED <<tSent, nTitleCalls>>
    /\ UNCHANGED <<conv, envVars, replyVars, coordVars>>

\* The single model call and the post-processing of its answer.
TitleCallModel ==
    /\ tPc = "call"
    /\ tSent' = TitleMessages(conv)
    /\ nTitleCalls' = nTitleCalls + 1
    /\ tRet' = TitleResult(titleResp)
    /\ tPc' = "done"
    /\ UNCHANGED <<conv, envVars, replyVars, coordVars>>

TitleNext == TitleEnter \/ TitleCallModel

\* The backend's answers to Title: a failure, no choice, or a raw text: every
\* short text over TitleAlphabet, and long texts around the 80-character cut.
TitleAlphabet == {"a", " ", "\n", "-", "\"", "'", "\f"}
Pad(n) == [k \in 1..n |-> "a"]
Affixes == {Empty, <<"\"">>, <<" ">>, <<"b", "'">>, <<"\"", "b">>}
RawTitles ==
    SeqsUpTo(TitleAlphabet, MaxRawLen)
    \cup {pre \o Pad(n) \o suf :
            pre \in Affixes, suf \in Affixes,
            n \in {MaxTitleLen - 2, MaxTitleLen - 1, MaxTitleLen}}

NoResponse == [err |-> Nil, choices |-> << >>]
TitleResponses ==
    {[err |-> BackendErr, choices |-> << >>], NoResponse}
    \cup {[err |-> Nil, choices |-> <<[content |-> raw, tool_calls |-> << >>]>>] :
            raw \in RawTitles}

\* Conversations Title is called with.
TitleContents == {Empty, <<" ">>, <<"h", "i">>, <<"y", "o">>}
TitleConvs ==
    {[title |-> Empty, messages |-> ms] :
        ms \in SeqsUpTo([role : {RoleUser, RoleAssistant}, content : TitleContents], MaxConvLen)}

TitleOff ==
    /\ tPc = "off"
    /\ tSent = << >>
    /\ tRet = NoRet
    /\ nTitleCalls = 0

(***************************************************************************)
(* Assistant.Reply.                                                        *)
(***************************************************************************)
ReplySystemPrompt == <<"You are a helpful, concise AI assistant.">>

\* The role switch of the loop over conv.Messages.
RECURSIVE MapMessages(_)
MapMessages(ms) ==
    IF Len(ms) = 0 THEN << >>
    ELSE LET m == Head(ms)
             rest == MapMessages(Tail(ms))
         IN  IF m.role = RoleUser THEN <<UserMessage(m.content)>> \o rest
             ELSE IF m.role = RoleAssistant THEN <<AssistantMessage(m.content)>> \o rest
             ELSE rest

InitialMessages(c) == <<SystemMessage(ReplySystemPrompt)>> \o MapMessages(c.messages)

\* The catalog built from tools.AllTools().
ToolDefs == [k \in 1..Len(AllTools) |-> [name |-> AllTools[k].name]]

LoopGuardOffByOne(n) == n <= MaxRounds

LoopGuard(n) == n < MaxRounds

\* The dispatch of one tool call (lookup, parse, invoke): the tool message
\* appended for it, whether t.Call was reached, and the error Reply returns
\* because of it (Nil in every branch: each one appends and continues).
Dispatched(fatal, called, msg) == [fatal |-> fatal, called |-> called, msg |-> msg]

DispatchAbortOnFailure(call) ==
    LET t == FindByName(call.name)
        parsed == Unmarshal(call.args)
    IN  IF t = NilTool
        THEN Dispatched(Nil, FALSE, ToolMessage(<<"unknown tool: ", call.name>>, call.id))
        ELSE IF parsed.err # Nil
        THEN Dispatched(parsed.err, FALSE, ToolMessage(Empty, call.id))
        ELSE LET res == ToolCall(t, parsed.args)
             IN  IF res.err # Nil
                 THEN Dispatched(res.err, TRUE, ToolMessage(Empty, call.id))
                 ELSE Dispatched(Nil, TRUE, ToolMessage(res.out, call.id))

DispatchParseFirst(call) ==
    LET t == FindByName(call.name)
        parsed == Unmarshal(call.args)
    IN  IF parsed.err # Nil
        THEN Dispatched(Nil, FALSE,
                 ToolMessage(<<"failed to parse tool arguments: ", parsed.err>>, call.id))
        ELSE IF t = NilTool
        THEN Dispatched(Nil, FALSE, ToolMessage(<<"unknown tool: ", call.name>>, call.id))
        ELSE LET res == ToolCall(t, parsed.args)
             IN  IF res.err # Nil
                 THEN Dispatched(Nil, TRUE, ToolMessage(<<"tool error: ", res.err>>, call.id))
                 ELSE Dispatched(Nil, TRUE, ToolMessage(res.out, call.id))

Dispatch(call) ==
    LET t == FindByName(call.name)
        parsed == Unmarshal(call.args)
    IN  IF t = NilTool
        THEN Dispatched(Nil, FALSE, ToolMessage(<<"unknown tool: ", call.name>>, call.id))
        ELSE IF parsed.err # Nil
        THEN Dispatched(Nil, FALSE,
                 ToolMessage(<<"failed to parse tool arguments: ", parsed.err>>, call.id))
        ELSE LET res == ToolCall(t, parsed.args)
             IN  IF res.err # Nil
                 THEN Dispatched(Nil, TRUE, ToolMessage(<<"tool error: ", res.err>>, call.id))
                 ELSE Dispatched(Nil, TRUE, ToolMessage(res.out, call.id))

\* The call the range loop visits in its k-th iteration.
NextCallReversed(m, k) == m.tool_calls[Len(m.tool_calls) + 1 - k]

NextCall(m, k) == m.tool_calls[k]

ReplyEnterNoCheck ==
    /\ assist = "real"
    /\ rPc = "idle"
    /\ toolDefs' = ToolDefs
    /\ msgs' = InitialMessages(conv)
    /\ rPc' = "loop"
    /\ UNCHANGED <<i, message, j, rRet, rResp, rSent, nModelCalls, invoked>>
    /\ UNCHANGED <<conv, envVars, titleVars, coordVars>>

\* Entry: the empty-conversation check, the initial message list, the catalog.
ReplyEnter ==
    /\ assist = "real"
    /\ rPc = "idle"
    /\ toolDefs' = ToolDefs
    /\ IF Len(conv.messages) = 0
       THEN /\ rRet' = Ret(Empty, NoMessagesErr)
            /\ rPc' = "done"
            /\ msgs' = msgs
       ELSE /\ msgs' = InitialMessages(conv)
            /\ rPc' = "loop"
            /\ rRet' = rRet
    /\ UNCHANGED <<i, message, j, rResp, rSent, nModelCalls, invoked>>
    /\ UNCHANGED <<conv, envVars, titleVars, coordVars>>

\* Variants of the model call: one that calls again after a failed call, one
\* that takes a response without choices for an empty reply, one that returns
\* a response's text although it carries tool calls, one that starts the
\* message list afresh in every round.
ReplyCallModelVariant(retry, emptyReply, textFirst, afresh) ==
    /\ rPc = "loop"
    /\ LoopGuard(i)
    /\ nModelCalls' = nModelCalls + 1
    /\ \E resp \in ModelResponses(i + 1) :
          /\ rResp' = resp
          /\ rSent' = msgs
          /\ IF resp.err # Nil
             THEN /\ rRet' = IF retry THEN rRet ELSE Ret(Empty, resp.err)
                  /\ rPc' = IF retry THEN "loop" ELSE "done"
                  /\ UNCHANGED <<msgs, message, j>>
             ELSE IF Len(resp.choices) = 0
             THEN /\ rRet' = IF emptyReply THEN Ret(Empty, Nil) ELSE Ret(Empty, NoChoicesErr)
                  /\ rPc' = "done"
                  /\ UNCHANGED <<msgs, message, j>>
             ELSE IF \/ Len(resp.choices[1].tool_calls) = 0
                     \/ (textFirst /\ resp.choices[1].content # Empty)
             THEN /\ rRet' = Ret(resp.choices[1].content, Nil)
                  /\ rPc' = "done"
                  /\ message' = resp.choices[1]
                  /\ UNCHANGED <<msgs, j>>
             ELSE /\ message' = resp.choices[1]
                  /\ msgs' = Append(IF afresh THEN InitialMessages(conv) ELSE msgs,
                                    ToParam(resp.choices[1]))
                  /\ j' = 1
                  /\ rPc' = "tools"
                  /\ rRet' = rRet
    /\ UNCHANGED <<i, toolDefs, invoked>>
    /\ UNCHANGED <<conv, envVars, titleVars, coordVars>>

ReplyCallModelRetry == ReplyCallModelVariant(TRUE, FALSE, FALSE, FALSE)

ReplyCallModelEmptyReply == ReplyCallModelVariant(FALSE, TRUE, FALSE, FALSE)

ReplyCallModelTextFirst == ReplyCallModelVariant(FALSE, FALSE, TRUE, FALSE)

ReplyCallModelAfresh == ReplyCallModelVariant(FALSE, FALSE, FALSE, TRUE)

\* One model call of the loop and the handling of its response, up to the
\* append of the assistant's tool-call message.
ReplyCallModel ==
    /\ rPc = "loop"
    /\ LoopGuard(i)
    /\ nModelCalls' = nModelCalls + 1
    /\ \E resp \in ModelResponses(i + 1) :
          /\ rResp' = resp
          /\ rSent' = msgs
          /\ IF resp.err # Nil
             THEN /\ rRet' = Ret(Empty, resp.err)
                  /\ rPc' = "done"
                  /\ UNCHANGED <<msgs, message, j>>
             ELSE IF Len(resp.choices) = 0
             THEN /\ rRet' = Ret(Empty, NoChoicesErr)
                  /\ rPc' = "done"
                  /\ UNCHANGED <<msgs, message, j>>
             ELSE IF Len(resp.choices[1].tool_calls) = 0
             THEN /\ rRet' = Ret(resp.choices[1].content, Nil)
                  /\ rPc' = "done"
                  /\ message' = resp.choices[1]
                  /\ UNCHANGED <<msgs, j>>
             ELSE /\ message' = resp.choices[1]
                  /\ msgs' = Append(msgs, ToParam(resp.choices[1]))
                  /\ j' = 1
                  /\ rPc' = "tools"
                  /\ rRet' = rRet
    /\ UNCHANGED <<i, toolDefs, invoked>>
    /\ UNCHANGED <<conv, envVars, titleVars, coordVars>>

\* A dispatch that tries a call again after its tool has failed.
ReplyToolAgain ==
    /\ rPc = "tools"
    /\ j <= Len(message.tool_calls)
    /\ LET call == NextCall(message, j)
           d == Dispatch(call)
       IN  /\ invoked' = IF d.called THEN Append(invoked, call.id) ELSE invoked
           /\ msgs' = Append(msgs, d.msg)
           /\ j' = IF d.called /\ d.msg.content[1] = "tool error: " THEN j ELSE j + 1
           /\ UNCHANGED <<rPc, rRet>>
    /\ UNCHANGED <<i, toolDefs, message, rResp, rSent, nModelCalls>>
    /\ UNCHANGED <<conv, envVars, titleVars, coordVars>>

\* One iteration of `for _, call := range message.ToolCalls`.
ReplyTool ==
    /\ rPc = "tools"
    /\ j <= Len(message.tool_calls)
    /\ LET call == NextCall(message, j)
           d == Dispatch(call)
       IN  /\ invoked' = IF d.called THEN Append(invoked, call.id) ELSE invoked
           /\ IF d.fatal # Nil
              THEN /\ rRet' = Ret(Empty, d.fatal)
                   /\ rPc' = "done"
                   /\ UNCHANGED <<msgs, j>>
              ELSE /\ msgs' = Append(msgs, d.msg)
                   /\ j' = j + 1
                   /\ UNCHANGED <<rPc, rRet>>
    /\ UNCHANGED <<i, toolDefs, message, rResp, rSent, nModelCalls>>
    /\ UNCHANGED <<conv, envVars, titleVars, coordVars>>

\* The range loop is exhausted: i++ and back to the loop condition.
ReplyRoundEnd ==
    /\ rPc = "tools"
    /\ j > Len(message.tool_calls)
    /\ i' = i + 1
    /\ rPc' = "loop"
    /\ UNCHANGED <<msgs, toolDefs, message, j, rRet, rResp, rSent, nModelCalls, invoked>>
    /\ UNCHANGED <<conv, envVars, titleVars, coordVars>>

\* The loop condition fails: the round-limit error.
ReplyExhausted ==
    /\ rPc = "loop"
    /\ ~LoopGuard(i)
    /\ rRet' = Ret(Empty, TooManyErr)
    /\ rPc' = "done"
    /\ UNCHANGED <<i, msgs, toolDefs, message, j, rResp, rSent, nModelCalls, invoked>>
    /\ UNCHANGED <<conv, envVars, titleVars, coordVars>>

ReplyNext == ReplyEnter \/ ReplyCallModel \/ ReplyTool \/ ReplyRoundEnd \/ ReplyExhausted

(***************************************************************************)
(* StartConversation: the coordinator that runs Title and Reply in two     *)
(* goroutines and merges their results.                                    *)
(***************************************************************************)
UntitledConversation ==
    <<"U", "n", "t", "i", "t", "l", "e", "d", " ",
      "c", "o", "n", "v", "e", "r", "s", "a", "t", "i", "o", "n">>

\* The conversation built from the request: one user message, no title yet.
NoConversation == [title |-> Empty, messages |-> << >>]
InitialTitle == Empty
NewConversation(m) == [title |-> InitialTitle, messages |-> <<Msg(RoleUser, m)>>]

\* make(chan ..., 1): a send blocks while the buffer is full.
ChanCap == 1
CanSendUnbuffered(ch) == Len(ch) < ChanCap - 1
CanSend(ch) == Len(ch) < ChanCap

\* What the title goroutine sends for the (title, err) Title returned.
TitleToSendErrOnly(ret) ==
    IF ret.err # Nil THEN UntitledConversation ELSE ret.val

TitleToSendInverted(ret) ==
    IF ret.err = Nil /\ TrimSpace(ret.val) # Empty THEN UntitledConversation ELSE ret.val

TitleToSend(ret) ==
    IF ret.err # Nil \/ TrimSpace(ret.val) = Empty THEN UntitledConversation ELSE ret.val

\* if replyResult.err != nil
ReplyFailedNever(result) == FALSE
ReplyFailed(result) == result.err # Nil

NoResp == [code |-> "pending", title |-> Empty, reply |-> Empty]
ErrorResp(code) == [code |-> code, title |-> Empty, reply |-> Empty]
OkResp(title, reply) == [code |-> "ok", title |-> title, reply |-> reply]

StartValidateNoCheck ==
    /\ sPc = "start"
    /\ conv' = NewConversation(req)
    /\ sPc' = "spawnTitle"
    /\ UNCHANGED <<gtPc, grPc, titleCh, replyCh, sTitle, sReply, store, sResp>>
    /\ UNCHANGED <<envVars, replyVars, titleVars>>

\* The request is validated and the conversation built.
StartValidate ==
    /\ sPc = "start"
    /\ IF req = Empty
       THEN /\ sResp' = ErrorResp("invalid_argument")
            /\ sPc' = "done"
            /\ conv' = conv
       ELSE /\ conv' = NewConversation(req)
            /\ sPc' = "spawnTitle"
            /\ sResp' = sResp
    /\ UNCHANGED <<gtPc, grPc, titleCh, replyCh, sTitle, sReply, store>>
    /\ UNCHANGED <<envVars, replyVars, titleVars>>

\* go func() { title, err := s.assist.Title(ctx, conversation) ... }()
CoordSpawnTitle ==
    /\ sPc = "spawnTitle"
    /\ gtPc' = "ready"
    /\ sPc' = "spawnReply"
    /\ UNCHANGED <<grPc, titleCh, replyCh, sTitle, sReply, store, sResp>>
    /\ UNCHANGED <<conv, envVars, replyVars, titleVars>>

\* go func() { reply, err := s.assist.Reply(ctx, conversation) ... }()
CoordSpawnReply ==
    /\ sPc = "spawnReply"
    /\ grPc' = "ready"
    /\ sPc' = "recvTitle"
    /\ UNCHANGED <<gtPc, titleCh, replyCh, sTitle, sReply, store, sResp>>
    /\ UNCHANGED <<conv, envVars, replyVars, titleVars>>

\* The title goroutine: the call of s.assist.Title, then the send on titleCh.
TitleBranchCall ==
    /\ gtPc = "ready"
    /\ gtPc' = "calling"
    /\ tPc' = "idle"
    /\ UNCHANGED <<tSent, tRet, nTitleCalls>>
    /\ UNCHANGED <<sPc, grPc, titleCh, replyCh, sTitle, sReply, store, sResp>>
    /\ UNCHANGED <<conv, envVars, replyVars>>

TitleBranchSend ==
    /\ gtPc = "calling"
    /\ tPc = "done"
    /\ CanSend(titleCh)
    /\ titleCh' = Append(titleCh, TitleToSend(tRet))
    /\ gtPc' = "exit"
    /\ UNCHANGED <<sPc, grPc, replyCh, sTitle, sReply, store, sResp>>
    /\ UNCHANGED <<conv, envVars, replyVars, titleVars>>

\* The reply goroutine: the call of s.assist.Reply, then the send on replyCh.
ReplyBranchCall ==
    /\ grPc = "ready"
    /\ grPc' = "calling"
    /\ rPc' = "idle"
    /\ UNCHANGED <<i, msgs, toolDefs, message, j, rRet, rResp, rSent, nModelCalls, invoked>>
    /\ UNCHANGED <<sPc, gtPc, titleCh, replyCh, sTitle, sReply, store, sResp>>
    /\ UNCHANGED <<conv, envVars, titleVars>>

\* A reply goroutine that reports a reply only, and ends silently on an error.
ReplyBranchSendOnSuccess ==
    /\ grPc = "calling"
    /\ rPc = "done"
    /\ CanSend(replyCh)
    /\ replyCh' = IF rRet.err = Nil THEN Append(replyCh, rRet) ELSE replyCh
    /\ grPc' = "exit"
    /\ UNCHANGED <<sPc, gtPc, titleCh, sTitle, sReply, store, sResp>>
    /\ UNCHANGED <<conv, envVars, replyVars, titleVars>>

ReplyBranchSend ==
    /\ grPc = "calling"
    /\ rPc = "done"
    /\ CanSend(replyCh)
    /\ replyCh' = Append(replyCh, rRet)
    /\ grPc' = "exit"
    /\ UNCHANGED <<sPc, gtPc, titleCh, sTitle, sReply, store, sResp>>
    /\ UNCHANGED <<conv, envVars, replyVars, titleVars>>

\* Any other implementation of the Assistant interface (the tests use a fake):
\* Title and Reply return some (string, error) without touching the conversation.
FakeErr == "fake assistant failed"
FakeTitleResults == {Ret(t, e) : t \in {Empty, <<" ">>, <<"W">>}, e \in {Nil, FakeErr}}
FakeReplyResults == {Ret(r, e) : r \in ReplyTexts, e \in {Nil, FakeErr}}

FakeTitle ==
    /\ assist = "fake"
    /\ tPc = "idle"
    /\ tRet' \in FakeTitleResults
    /\ tPc' = "done"
    /\ UNCHANGED <<tSent, nTitleCalls>>
    /\ UNCHANGED <<conv, envVars, replyVars, coordVars>>

FakeReply ==
    /\ assist = "fake"
    /\ rPc = "idle"
    /\ rRet' \in FakeReplyResults
    /\ rPc' = "done"
    /\ UNCHANGED <<i, msgs, toolDefs, message, j, rResp, rSent, nModelCalls, invoked>>
    /\ UNCHANGED <<conv, envVars, titleVars, coordVars>>

\* title := <-titleCh
CoordRecvTitleAndApply ==
    /\ sPc = "recvTitle"
    /\ Len(titleCh) > 0
    /\ sTitle' = Head(titleCh)
    /\ titleCh' = Tail(titleCh)
    /\ conv' = [conv EXCEPT !.title = Head(titleCh)]
    /\ sPc' = "recvReply"
    /\ UNCHANGED <<gtPc, grPc, replyCh, sReply, store, sResp>>
    /\ UNCHANGED <<envVars, replyVars, titleVars>>

CoordRecvTitle ==
    /\ sPc = "recvTitle"
    /\ Len(titleCh) > 0
    /\ sTitle' = Head(titleCh)
    /\ titleCh' = Tail(titleCh)
    /\ sPc' = "recvReply"
    /\ UNCHANGED <<gtPc, grPc, replyCh, sReply, store, sResp>>
    /\ UNCHANGED <<conv, envVars, replyVars, titleVars>>

\* replyResult := <-replyCh, and the return of an internal error if it failed.
CoordRecvReply ==
    /\ sPc = "recvReply"
    /\ Len(replyCh) > 0
    /\ sReply' = Head(replyCh)
    /\ replyCh' = Tail(replyCh)
    /\ IF ReplyFailed(Head(replyCh))
       THEN /\ sResp' = ErrorResp("internal")
            /\ sPc' = "done"
       ELSE /\ sPc' = "applyTitle"
            /\ sResp' = sResp
    /\ UNCHANGED <<gtPc, grPc, titleCh, sTitle, store>>
    /\ UNCHANGED <<conv, envVars, replyVars, titleVars>>

\* conversation.Title = title
CoordApplyTitle ==
    /\ sPc = "applyTitle"
    /\ conv' = [conv EXCEPT !.title = sTitle]
    /\ sPc' = "appendReply"
    /\ UNCHANGED <<gtPc, grPc, titleCh, replyCh, sTitle, sReply, store, sResp>>
    /\ UNCHANGED <<envVars, replyVars, titleVars>>

\* The assistant message carrying the reply is appended to the conversation.
CoordAppendReply ==
    /\ sPc = "appendReply"
    /\ conv' = [conv EXCEPT !.messages = Append(@, Msg(RoleAssistant, sReply.val))]
    /\ sPc' = "persist"
    /\ UNCHANGED <<gtPc, grPc, titleCh, replyCh, sTitle, sReply, store, sResp>>
    /\ UNCHANGED <<envVars, replyVars, titleVars>>

\* The single durable write, and the response.
CoordPersist ==
    /\ sPc = "persist"
    /\ store' = Append(store, conv)
    /\ sResp' = OkResp(conv.title, sReply.val)
    /\ sPc' = "done"
    /\ UNCHANGED <<gtPc, grPc, titleCh, replyCh, sTitle, sReply>>
    /\ UNCHANGED <<conv, envVars, replyVars, titleVars>>

CoordNext ==
    \/ StartValidate
    \/ CoordSpawnTitle
    \/ CoordSpawnReply
    \/ TitleBranchCall
    \/ TitleBranchSend
    \/ ReplyBranchCall
    \/ ReplyBranchSend
    \/ FakeTitle
    \/ FakeReply
    \/ CoordRecvTitle
    \/ CoordRecvReply
    \/ CoordApplyTitle
    \/ CoordAppendReply
    \/ CoordPersist

CoordOff ==
    /\ sPc = "off"
    /\ gtPc = "none"
    /\ grPc = "none"
    /\ titleCh = << >>
    /\ replyCh = << >>
    /\ sTitle = Empty
    /\ sReply = NoRet
    /\ store = << >>
    /\ sResp = NoResp

\* Conversations Reply is called with.
Hi == <<"h", "i">>
ReplyConvs ==
    {[title |-> Empty, messages |-> ms] :
        ms \in {<< >>,
                <<Msg(RoleUser, Hi)>>,
                <<Msg(RoleUser, Hi), Msg(RoleTool, <<"x">>), Msg(RoleAssistant, <<"o", "k">>)>>}}

ReplyInit ==
    /\ conv \in ReplyConvs
    /\ RegistryReady
    /\ ForecastOff
    /\ ctxDone = FALSE
    /\ script \in Scripts
    /\ rPc = "idle"
    /\ i = 0
    /\ msgs = << >>
    /\ toolDefs = << >>
    /\ message = NoMessage
    /\ j = 0
    /\ rRet = NoRet
    /\ rResp = NotCalled
    /\ rSent = << >>
    /\ nModelCalls = 0
    /\ invoked = << >>
    /\ titleResp = NoResponse
    /\ TitleOff
    /\ req = Empty
    /\ assist = "real"
    /\ CoordOff

SpecReply == ReplyInit /\ [][ReplyNext]_vars

ReplyOff ==
    /\ rPc = "off"
    /\ i = 0
    /\ msgs = << >>
    /\ toolDefs = << >>
    /\ message = NoMessage
    /\ j = 0
    /\ rRet = NoRet
    /\ rResp = NotCalled
    /\ rSent = << >>
    /\ nModelCalls = 0
    /\ invoked = << >>

TitleInit ==
    /\ conv \in TitleConvs
    /\ RegistryReady
    /\ ForecastOff
    /\ ctxDone = FALSE
    /\ script = NoScript
    /\ titleResp \in TitleResponses
    /\ ReplyOff
    /\ tPc = "idle"
    /\ tSent = << >>
    /\ tRet = NoRet
    /\ nTitleCalls = 0
    /\ req = Empty
    /\ assist = "real"
    /\ CoordOff

SpecTitle == TitleInit /\ [][TitleNext]_vars

\* StartConversation with the real Assistant (against a few backend
\* behaviours) or with a fake one.
Requests == {Empty, Hi}
StartScripts ==
    {[content |-> Empty, calls |-> <<CallShape("get_today_date", ArgsEmpty)>>],
     [content |-> <<"o", "k">>,
      calls |-> <<CallShape(UnknownToolName, ArgsBad),
                  CallShape("get_weather_forecast", ArgsLoc)>>]}
StartTitleResponses ==
    {[err |-> BackendErr, choices |-> << >>], NoResponse}
    \cup {[err |-> Nil, choices |-> <<[content |-> raw, tool_calls |-> << >>]>>] :
            raw \in {<<"a">>, <<"\f">>}}

StartInit ==
    /\ req \in Requests
    /\ conv = NoConversation
    /\ RegistryReady
    /\ ForecastOff
    /\ ctxDone = FALSE
    /\ \/ /\ assist = "real"
          /\ script \in StartScripts
          /\ titleResp \in StartTitleResponses
       \/ /\ assist = "fake"
          /\ script = NoScript
          /\ titleResp = NoResponse
    /\ ReplyOff
    /\ TitleOff
    /\ sPc = "start"
    /\ gtPc = "none"
    /\ grPc = "none"
    /\ titleCh = << >>
    /\ replyCh = << >>
    /\ sTitle = Empty
    /\ sReply = NoRet
    /\ store = << >>
    /\ sResp = NoResp

StartNext == CoordNext \/ TitleNext \/ ReplyNext

SpecStart == StartInit /\ [][StartNext]_vars

\* StartConversation with goroutines the scheduler keeps running: the
\* handler and the two branches each take a step they can take.
StartFairness ==
    /\ WF_vars(CoordNext)
    /\ WF_vars(TitleNext)
    /\ WF_vars(ReplyNext)

SpecStartFair == StartInit /\ [][StartNext]_vars /\ StartFairness

\* Reply under a ctx the caller may cancel.
CancelNext == ReplyNext \/ CtxCancel

SpecCancel == ReplyInit /\ [][CancelNext]_vars

\* The registry from program start: Register calls, lookups, and the catalog
\* Reply builds from AllTools.
RegistryInit ==
    /\ conv = [title |-> Empty, messages |-> <<Msg(RoleUser, Hi)>>]
    /\ registry = << >>
    /\ regLog = << >>
    /\ found = NotLooked
    /\ ForecastOff
    /\ ctxDone = FALSE
    /\ script = NoScript
    /\ rPc = "idle"
    /\ i = 0
    /\ msgs = << >>
    /\ toolDefs = << >>
    /\ message = NoMessage
    /\ j = 0
    /\ rRet = NoRet
    /\ rResp = NotCalled
    /\ rSent = << >>
    /\ nModelCalls = 0
    /\ invoked = << >>
    /\ titleResp = NoResponse
    /\ TitleOff
    /\ req = Empty
    /\ assist = "real"
    /\ CoordOff

RegistryNext ==
    \/ \E t \in Tools : Register(t)
    \/ \E name \in LookupNames : Lookup(name)
    \/ ReplyEnter

SpecRegistry == RegistryInit /\ [][RegistryNext]_vars

\* The forecast tool called on its own.
ForecastInit ==
    /\ conv = [title |-> Empty, messages |-> << >>]
    /\ RegistryReady
    /\ fIn \in [args : ForecastArgs, key : BOOLEAN]
    /\ fOut = ForecastPending
    /\ ctxDone = FALSE
    /\ script = NoScript
    /\ titleResp = NoResponse
    /\ ReplyOff
    /\ TitleOff
    /\ req = Empty
    /\ assist = "real"
    /\ CoordOff

SpecForecast == ForecastInit /\ [][ForecastCall]_vars

(***************************************************************************)
(* Reading the running message list: a round starts at the assistant       *)
(* message that carries tool calls; the entries after it are the tool      *)
(* messages of that round.  The formulas below speak of the round most     *)
(* recently started: every round is that round while it is dispatched and  *)
(* until the next model call answers.                                      *)
(***************************************************************************)
IsRoundStart(p) == msgs[p].role = RoleAssistant /\ Len(msgs[p].tool_calls) > 0

RoundStarts == {p \in 1..Len(msgs) : IsRoundStart(p)}

RECURSIVE LastStartFrom(_)
LastStartFrom(q) ==
    IF q = 0 THEN 0 ELSE IF IsRoundStart(q) THEN q ELSE LastStartFrom(q - 1)

\* Index of the assistant message of the latest round, 0 before the first.
LastStart == LastStartFrom(Len(msgs))

\* Number of calls of the latest round whose dispatch is over.
DispatchedCount(p) == IF rPc = "tools" THEN j - 1 ELSE Len(msgs[p].tool_calls)

RoundWellFormed(p) ==
    /\ Len(msgs) - p = DispatchedCount(p)
    /\ \A q \in (p + 1)..Len(msgs) : msgs[q].role = RoleTool

Registered(name) == \E k \in 1..Len(registry) : registry[k].name = name

\* The four outcomes of a dispatch, read off the call.
Outcome(call) ==
    IF ~Registered(call.name) THEN "unknown"
    ELSE IF call.args = ArgsBad THEN "parse"
    ELSE IF call.name = "get_weather_forecast" /\ call.args \in {ArgsEmpty, ArgsNowhere}
    THEN "toolerr"
    ELSE "ok"

ReplyErrors == {BackendErr, NoChoicesErr, TooManyErr, NoMessagesErr}

\* The loop goes on: the step the code takes next is possible.
LoopGoesOn ==
    /\ rPc = "done" => rRet.err \in ReplyErrors \cup {Nil}
    /\ (rPc = "tools" /\ j <= Len(message.tool_calls)) => ENABLED ReplyTool
    /\ (rPc = "tools" /\ j > Len(message.tool_calls)) => ENABLED ReplyRoundEnd
    /\ (rPc = "loop" /\ i < 15) => ENABLED ReplyCallModel

\* C1: Reply issues at most 15 model calls; after 15 responses that all carry
\* tool calls it returns the round-limit error, and a 16th call never happens.
C1_RoundBound ==
    /\ nModelCalls <= 15
    /\ (rPc = "loop" /\ i = 15) => ~ENABLED ReplyCallModel
    /\ (rPc = "done" /\ i = 15) =>
          /\ nModelCalls = 15
          /\ rRet = Ret(Empty, TooManyErr)
    /\ (rPc = "done" /\ rRet.err = TooManyErr) => (i = 15 /\ Cardinality(RoundStarts) = 15)

C1_Witness ==
    /\ rPc = "done"
    /\ rRet.err = TooManyErr
    /\ nModelCalls = 15
    /\ Cardinality(RoundStarts) = 15

\* C2: in every round the tool messages appended carry the ids of the
\* response's tool calls, in the order of the calls, whatever each outcome.
C2_ToolMessagesInCallOrder ==
    LET p == LastStart
    IN  /\ rPc = "tools" => (p > 0 /\ msgs[p].tool_calls = message.tool_calls)
        /\ p > 0 =>
              /\ RoundWellFormed(p)
              /\ \A k \in 1..DispatchedCount(p) :
                    /\ msgs[p + k].role = RoleTool
                    /\ msgs[p + k].tool_call_id = msgs[p].tool_calls[k].id

C2_Witness ==
    /\ rPc = "loop"
    /\ i = 2
    /\ Len(script.calls) = 2
    /\ Outcome(script.calls[1]) = "toolerr"
    /\ Outcome(script.calls[2]) = "unknown"
    /\ msgs[LastStart + 1].tool_call_id = CallId(2, 1)
    /\ msgs[LastStart + 2].tool_call_id = CallId(2, 2)

\* C3: a parse failure or a failing t.Call yields a tool message describing
\* the error; the rest of the round is still dispatched, the next model call
\* is issued, and Reply never returns an error because of the tool failure.
C3_ToolFailureAbsorbed ==
    LET p == LastStart
    IN  /\ p > 0 =>
              /\ RoundWellFormed(p)
              /\ \A k \in 1..DispatchedCount(p) :
                    LET call == msgs[p].tool_calls[k]
                    IN  /\ Outcome(call) = "parse" =>
                              msgs[p + k] =
                                  ToolMessage(<<"failed to parse tool arguments: ", JsonErr>>,
                                              call.id)
                        /\ Outcome(call) = "toolerr" =>
                              /\ msgs[p + k].role = RoleTool
                              /\ msgs[p + k].tool_call_id = call.id
                              /\ Len(msgs[p + k].content) = 2
                              /\ msgs[p + k].content[1] = "tool error: "
                              /\ msgs[p + k].content[2] \in {MissingLocationErr, ProviderErr}
        /\ LoopGoesOn

C3_Witness ==
    /\ rPc = "tools"
    /\ nModelCalls = 2
    /\ Len(script.calls) = 2
    /\ Outcome(script.calls[1]) = "parse"
    /\ Outcome(script.calls[2]) = "toolerr"
    /\ Cardinality(RoundStarts) = 2
    /\ Len(msgs) = Len(InitialMessages(conv)) + 4

\* C4: a tool name that is not registered invokes no capability and yields a
\* tool message with the "unknown tool" marker and the call's id, whether or
\* not the arguments parse; the loop goes on.
C4_UnknownTool ==
    LET p == LastStart
    IN  /\ p > 0 =>
              /\ RoundWellFormed(p)
              /\ \A k \in 1..DispatchedCount(p) :
                    LET call == msgs[p].tool_calls[k]
                    IN  ~Registered(call.name) =>
                            /\ msgs[p + k].role = RoleTool
                            /\ msgs[p + k].content = <<"unknown tool: ", call.name>>
                            /\ msgs[p + k].tool_call_id = call.id
                            /\ \A n \in 1..Len(invoked) : invoked[n] # call.id
        /\ LoopGoesOn

C4_Witness ==
    /\ nModelCalls = 2
    /\ Len(script.calls) = 1
    /\ script.calls[1] = CallShape(UnknownToolName, ArgsBad)
    /\ LastStart > 0
    /\ msgs[Len(msgs)] = ToolMessage(<<"unknown tool: ", UnknownToolName>>, CallId(2, 1))
    /\ invoked = << >>

\* C10: whatever the conversation and whatever the backend answers (a call
\* error, no choice, any text), Title returns a nil error.
C10_TitleNeverFails ==
    tPc = "done" => (tRet.err = Nil /\ tRet # NoRet)

C10_Witness ==
    /\ tPc = "done"
    /\ nTitleCalls = 1
    /\ titleResp.err = BackendErr
    /\ tRet = Ret(NewConversationTitle, Nil)

(***************************************************************************)
(* StartConversation.  The formulas speak of a request that passed the     *)
(* validation; tRet and rRet are what the Title and the Reply branch       *)
(* returned.                                                               *)
(***************************************************************************)
Started == sPc \notin {"off", "start"} /\ req # Empty
TitleReturned == Started /\ gtPc \in {"calling", "exit"} /\ tPc = "done"
ReplyReturned == Started /\ grPc \in {"calling", "exit"} /\ rPc = "done"
BranchRunning == gtPc \in {"ready", "calling"} \/ grPc \in {"ready", "calling"}
BlankTitle == tRet.err # Nil \/ TrimSpace(tRet.val) = Empty

\* C5: if the Reply branch returns an error, StartConversation returns an
\* internal error, and neither the title nor an assistant message is applied
\* to the conversation or persisted.
C5_ReplyFailureIsFatal ==
    (ReplyReturned /\ rRet.err # Nil) =>
        /\ conv = NewConversation(req)
        /\ store = << >>
        /\ sPc \in {"spawnTitle", "spawnReply", "recvTitle", "recvReply", "done"}
        /\ sPc = "done" => sResp = ErrorResp("internal")

C5_Witness ==
    /\ sPc = "done"
    /\ rRet.err = BackendErr
    /\ sTitle = <<"a">>
    /\ sResp = ErrorResp("internal")
    /\ conv.title = InitialTitle

\* C6: if the Title branch returns an error or a title that is blank after
\* trimming, the title applied is exactly "Untitled conversation", and the
\* operation succeeds whenever the Reply branch succeeds.
C6_TitleFallback ==
    (TitleReturned /\ BlankTitle) =>
        /\ \A k \in 1..Len(titleCh) : titleCh[k] = UntitledConversation
        /\ sPc \in {"recvReply", "applyTitle", "appendReply", "persist", "done"} =>
              sTitle = UntitledConversation
        /\ sPc \in {"appendReply", "persist"} => conv.title = UntitledConversation
        /\ (sPc = "done" /\ rRet.err = Nil) =>
              /\ conv.title = UntitledConversation
              /\ sResp = OkResp(UntitledConversation, rRet.val)
              /\ store = <<conv>>

C6_Witness ==
    /\ sPc = "done"
    /\ tRet.err = FakeErr
    /\ tRet.val = <<"W">>
    /\ rRet.err = Nil
    /\ sResp = OkResp(UntitledConversation, <<"o", "k">>)
    /\ conv.title = UntitledConversation

\* C7: for a non-empty message m, a non-blank title t and a reply r, the
\* response carries t and r, and the persisted conversation has title t and
\* messages that begin with the user message m and the assistant message r.
C7_BothSucceed ==
    (sPc = "done" /\ req # Empty /\ ~BlankTitle /\ rRet.err = Nil) =>
        /\ sResp = OkResp(tRet.val, rRet.val)
        /\ Len(store) = 1
        /\ store[1].title = tRet.val
        /\ Len(store[1].messages) >= 2
        /\ store[1].messages[1] = Msg(RoleUser, req)
        /\ store[1].messages[2] = Msg(RoleAssistant, rRet.val)

C7_Witness ==
    /\ sPc = "done"
    /\ assist = "real"
    /\ nModelCalls = 2
    /\ sResp = OkResp(<<"a">>, <<"o", "k">>)
    /\ store = <<[title |-> <<"a">>,
                  messages |-> <<Msg(RoleUser, Hi), Msg(RoleAssistant, <<"o", "k">>)>>]>>

\* C8: the Title and the Reply branch never wait on each other: whatever the
\* other branch has done, a branch can take its next step up to and including
\* its send; the handler reaches the merge only after both have delivered.
C8_BranchesIndependent ==
    /\ gtPc = "ready" => ENABLED TitleBranchCall
    /\ (gtPc = "calling" /\ tPc # "done") => ENABLED (TitleNext \/ FakeTitle)
    /\ (gtPc = "calling" /\ tPc = "done") => ENABLED TitleBranchSend
    /\ grPc = "ready" => ENABLED ReplyBranchCall
    /\ (grPc = "calling" /\ rPc # "done") => ENABLED (ReplyNext \/ FakeReply)
    /\ (grPc = "calling" /\ rPc = "done") => ENABLED ReplyBranchSend
    /\ sPc \in {"applyTitle", "appendReply", "persist"} =>
          /\ gtPc = "exit"
          /\ grPc = "exit"
          /\ sTitle = TitleToSend(tRet)
          /\ sReply = rRet

C8_Witness ==
    /\ grPc = "exit"
    /\ Len(replyCh) = 1
    /\ gtPc = "ready"
    /\ tPc = "off"
    /\ nModelCalls = 15

\* C9: while a branch is running the conversation is as it was built from the
\* request: Title and Reply do not write to it, and the handler's first write
\* comes after it has received both results.
C9_ConversationUnchangedWhileRunning ==
    Started =>
        /\ BranchRunning => conv = NewConversation(req)
        /\ conv # NewConversation(req) =>
              /\ sPc \in {"appendReply", "persist", "done"}
              /\ sTitle = TitleToSend(tRet)
              /\ sReply = rRet
              /\ titleCh = << >>
              /\ replyCh = << >>

C9_Witness ==
    /\ sPc = "appendReply"
    /\ assist = "real"
    /\ nModelCalls = 3
    /\ nTitleCalls = 1
    /\ conv.title = <<"a">>
    /\ conv.messages = <<Msg(RoleUser, Hi)>>

(***************************************************************************)
(* Assistant.Title, claim by claim.                                        *)
(***************************************************************************)
TitleCalled == tPc = "done" /\ Len(conv.messages) > 0
HasText(resp) == resp.err = Nil /\ Len(resp.choices) > 0
Quotes == {"\"", "'"}
Contains(str, chars) == \E k \in 1..Len(str) : str[k] \in chars

\* C11: for a conversation with zero messages Title returns "An empty
\* conversation" with a nil error and issues no model-backend call.
C11_EmptyConversationTitle ==
    (tPc = "done" /\ Len(conv.messages) = 0) =>
        /\ tRet = Ret(EmptyConversationTitle, Nil)
        /\ nTitleCalls = 0
        /\ tSent = << >>
        /\ ~ENABLED TitleNext

C11_Witness ==
    /\ tPc = "done"
    /\ conv.messages = << >>
    /\ HasText(titleResp)
    /\ tRet.val = EmptyConversationTitle
    /\ nTitleCalls = 0

\* C12: for any raw text of the backend, the title returned contains no
\* newline, neither begins nor ends with a quote character, and has at most
\* 80 characters.
C12_TitleCleanAndShort ==
    (TitleCalled /\ HasText(titleResp)) =>
        /\ ~Contains(tRet.val, {"\n"})
        /\ tRet.val[1] \notin Quotes
        /\ tRet.val[Len(tRet.val)] \notin Quotes
        /\ Len(tRet.val) <= MaxTitleLen

\* C13: for a non-empty conversation Title issues exactly one model call with
\* two messages: the system instruction, then a user message with the content
\* of the lowest-index user message with non-blank content, or of the very
\* first message if there is none.
UserIdx(c) ==
    {k \in 1..Len(c.messages) :
        c.messages[k].role = RoleUser /\ TrimSpace(c.messages[k].content) # Empty}
Lowest(S) == CHOOSE x \in S : \A y \in S : x <= y
SelectedText(c) ==
    IF UserIdx(c) = {} THEN c.messages[1].content
    ELSE c.messages[Lowest(UserIdx(c))].content

C13_OneCallFirstUserMessage ==
    /\ (tPc = "call") => nTitleCalls = 0
    /\ TitleCalled =>
          /\ nTitleCalls = 1
          /\ ~ENABLED TitleNext
          /\ Len(tSent) = 2
          /\ tSent[1] = SystemMessage(TitleSystemPrompt)
          /\ tSent[2] = UserMessage(SelectedText(conv))

C13_Witness ==
    /\ tPc = "done"
    /\ conv.messages = <<Msg(RoleUser, <<"h", "i">>), Msg(RoleUser, <<"y", "o">>)>>
    /\ nTitleCalls = 1
    /\ tSent[2] = UserMessage(<<"h", "i">>)

(***************************************************************************)
(* Assistant.Reply: its errors.  rResp is the answer to the latest model   *)
(* call, of which nModelCalls have been issued.                            *)
(***************************************************************************)
ReplyRunning == rPc \in {"loop", "tools", "done"}
Exhausted == i = MaxRounds /\ nModelCalls = MaxRounds
CallFailed == nModelCalls >= 1 /\ rResp.err # Nil
NoChoices == nModelCalls >= 1 /\ rResp.err = Nil /\ Len(rResp.choices) = 0

\* C14: for a non-empty conversation, when the model call fails or returns
\* zero choices, Title returns "New conversation" with a nil error, while
\* Reply returns a non-nil error and no reply text.
C14_FailureAsymmetry ==
    (assist = "real" /\ Len(conv.messages) > 0) =>
        /\ (tPc = "done" /\ ~HasText(titleResp)) => tRet = Ret(NewConversationTitle, Nil)
        /\ (rPc = "done" /\ (CallFailed \/ NoChoices)) =>
              /\ rRet.err # Nil
              /\ rRet.val = Empty

C14_Witness ==
    /\ tPc = "done"
    /\ rPc = "done"
    /\ titleResp = NoResponse
    /\ tRet = Ret(NewConversationTitle, Nil)
    /\ NoChoices
    /\ rRet = Ret(Empty, NoChoicesErr)

\* C15 as stated: Reply returns an error only when a model call has failed or
\* the round limit is exhausted.
C15_ErrorOnlyOnFailedCallOrLimit ==
    (rPc = "done" /\ rRet.err # Nil) => (CallFailed \/ Exhausted)

\* C15: Reply returns an error only when the conversation has no messages, a
\* model call has failed or returned zero choices, or the round limit is
\* exhausted; in every other execution it returns the text of the last
\* response, which carries no tool call, with a nil error.
C15_ErrorCauses ==
    rPc = "done" =>
        IF Len(conv.messages) = 0 THEN rRet = Ret(Empty, NoMessagesErr) /\ nModelCalls = 0
        ELSE IF CallFailed THEN rRet = Ret(Empty, rResp.err)
        ELSE IF NoChoices THEN rRet = Ret(Empty, NoChoicesErr)
        ELSE IF rRet.err # Nil THEN rRet = Ret(Empty, TooManyErr) /\ Exhausted
        ELSE /\ rRet = Ret(rResp.choices[1].content, Nil)
             /\ rResp.choices[1].tool_calls = << >>

C15_Witness ==
    /\ rPc = "done"
    /\ Len(conv.messages) > 0
    /\ nModelCalls = 2
    /\ NoChoices
    /\ ~Exhausted
    /\ rRet = Ret(Empty, NoChoicesErr)

\* C16: if the model call of round k fails, Reply returns that error at once:
\* it has issued exactly k model calls, does not call again, and invokes no
\* further tool.
C16_FailedCallReturnsAtOnce ==
    (ReplyRunning /\ CallFailed) =>
        /\ rPc = "done"
        /\ rRet = Ret(Empty, rResp.err)
        /\ nModelCalls = i + 1
        /\ nModelCalls \in 1..MaxRounds
        /\ ~ENABLED ReplyNext

C16_Witness ==
    /\ rPc = "done"
    /\ rResp.err = BackendErr
    /\ rRet = Ret(Empty, BackendErr)
    /\ i = MaxRounds - 1
    /\ nModelCalls = MaxRounds

\* C17: for a conversation with zero messages Reply returns a non-nil error
\* and an empty reply, without any model call or tool invocation.
C17_EmptyConversationReply ==
    (ReplyRunning /\ Len(conv.messages) = 0) =>
        /\ rPc = "done"
        /\ rRet.err # Nil
        /\ rRet.val = Empty
        /\ nModelCalls = 0
        /\ invoked = << >>
        /\ msgs = << >>
        /\ ~ENABLED ReplyNext

C17_Witness ==
    /\ rPc = "done"
    /\ conv.messages = << >>
    /\ rRet = Ret(Empty, NoMessagesErr)
    /\ nModelCalls = 0

\* C18: StartConversation with an empty message returns InvalidArgument
\* before the coordinator runs: neither Title nor Reply is invoked and no
\* conversation is created.
C18_EmptyMessageRejected ==
    req = Empty =>
        /\ sPc \in {"start", "done"}
        /\ sPc = "done" => sResp = ErrorResp("invalid_argument")
        /\ conv = NoConversation
        /\ store = << >>
        /\ gtPc = "none" /\ grPc = "none"
        /\ tPc = "off" /\ rPc = "off"
        /\ nTitleCalls = 0 /\ nModelCalls = 0
        /\ sPc = "done" => ~ENABLED StartNext

C18_Witness ==
    /\ req = Empty
    /\ sPc = "done"
    /\ sResp = ErrorResp("invalid_argument")
    /\ assist = "fake"
    /\ store = << >>

(***************************************************************************)
(* Assistant.Title: the text it returns.                                   *)
(***************************************************************************)
RawTitle == titleResp.choices[1].content
AllIn(str, chars) == \A k \in 1..Len(str) : str[k] \in chars

C20_NoQuoteAnywhere ==
    (TitleCalled /\ HasText(titleResp)) => ~Contains(tRet.val, Quotes \cup {"\n"})

(***************************************************************************)
(* Assistant.Reply: the messages it sends, and a cancelled ctx.            *)
(***************************************************************************)
\* C21: the list Reply sends in its first model call is the system
\* instruction followed by every message of the conversation in its order,
\* role-mapped, tool-role messages included.
C21_EveryMessageSent ==
    nModelCalls = 1 =>
        /\ Len(rSent) = 1 + Len(conv.messages)
        /\ rSent[1] = SystemMessage(ReplySystemPrompt)
        /\ \A k \in 1..Len(conv.messages) :
              /\ rSent[k + 1].role = conv.messages[k].role
              /\ rSent[k + 1].content = conv.messages[k].content

\* C22: once ctx is cancelled while a round is in flight, Reply invokes no
\* further tool and appends no further tool message: its next step returns a
\* failure.
C22_CancelAbortsRound ==
    [][(ctxDone /\ rPc = "tools") =>
          /\ invoked' = invoked
          /\ msgs' = msgs
          /\ rPc' = "done"
          /\ rRet'.err # Nil]_vars

(***************************************************************************)
(* The registry.  found is the latest FindByName call, made when found.at  *)
(* tools were registered.                                                  *)
(***************************************************************************)
Looked == found # NotLooked
SameName == {k \in 1..found.at : registry[k].name = found.name}
Highest(S) == CHOOSE x \in S : \A y \in S : y <= x

\* C23: FindByName(name) returns a registered tool whose name is exactly
\* name, and nil when no registered tool has exactly that name, also when
\* one differs from it only in case or is a prefix or an extension of it.
C23_ExactNameMatch ==
    Looked =>
        IF SameName = {} THEN found.tool = NilTool
        ELSE /\ found.tool.name = found.name
             /\ \E k \in SameName : registry[k] = found.tool

C23_Witness ==
    /\ found.name = "GET_TODAY_DATE"
    /\ found.tool = NilTool
    /\ found.at = 2
    /\ registry[1] = ToolTodayDate
    /\ registry[2] = ToolWeatherForecast

\* C24: when two capabilities have been registered under one name,
\* FindByName for that name returns the one registered last.
C24_LastRegistrationWins ==
    (Looked /\ Cardinality(SameName) >= 2) => found.tool = registry[Highest(SameName)]

\* C25: after any sequence of Register calls AllTools returns every
\* registered capability once per registration, in registration order, and
\* the catalog Reply passes to the model has one declaration per registered
\* capability in that order.
C25_AllToolsInRegistrationOrder ==
    /\ AllTools = regLog
    /\ rPc = "loop" =>
          /\ Len(toolDefs) = Len(regLog)
          /\ \A k \in 1..Len(regLog) : toolDefs[k].name = regLog[k].name

C25_Witness ==
    /\ rPc = "loop"
    /\ regLog = <<ToolTodayDate, ToolWeatherForecast, ToolTodayDate>>
    /\ AllTools = regLog
    /\ toolDefs = <<[name |-> "get_today_date"], [name |-> "get_weather_forecast"],
                    [name |-> "get_today_date"]>>

(***************************************************************************)
(* Assistant.Reply: the running message list.                              *)
(***************************************************************************)
ToolPos == {q \in 1..Len(msgs) : msgs[q].role = RoleTool}

\* The most recent assistant message at or before position q, 0 if none.
RECURSIVE PrevAssistant(_)
PrevAssistant(q) ==
    IF q = 0 THEN 0
    ELSE IF msgs[q].role = RoleAssistant THEN q
    ELSE PrevAssistant(q - 1)

ToolResponse ==
    nModelCalls >= 1 /\ HasText(rResp) /\ Len(rResp.choices[1].tool_calls) > 0

\* C26: Reply returns a text as the reply only when the response it comes
\* from carries no tool call; a response with text and a tool call does not
\* end the loop and its text is not returned.
C26_TextOnlyWithoutToolCalls ==
    /\ (rPc = "done" /\ rRet.err = Nil) =>
          /\ HasText(rResp)
          /\ rResp.choices[1].tool_calls = << >>
          /\ rRet.val = rResp.choices[1].content
    /\ ToolResponse =>
          /\ rPc \in {"tools", "loop", "done"}
          /\ rRet.err # Nil
          /\ rRet.val = Empty
          /\ rPc = "done" => rRet = Ret(Empty, TooManyErr)

C26_Witness ==
    /\ rPc = "done"
    /\ script.content = <<"o", "k">>
    /\ nModelCalls = 2
    /\ Len(msgs) > Len(InitialMessages(conv))
    /\ rRet = Ret(Empty, Nil)

\* C27: every ToolCall of a response is dispatched exactly once: one tool
\* message and at most one invocation per call, and every tool message
\* carries the id of a call of the most recent assistant message before it.
C27_DispatchedExactlyOnce ==
    /\ \A q \in ToolPos :
          LET p == PrevAssistant(q)
          IN  /\ p > 0
              /\ \E k \in 1..Len(msgs[p].tool_calls) :
                    msgs[p].tool_calls[k].id = msgs[q].tool_call_id
    /\ Cardinality({msgs[q].tool_call_id : q \in ToolPos}) = Cardinality(ToolPos)
    /\ Cardinality(ToolPos) =
          i * Len(script.calls) + (IF rPc = "tools" THEN j - 1 ELSE 0)
    /\ Cardinality({invoked[a] : a \in 1..Len(invoked)}) = Len(invoked)
    /\ \A a \in 1..Len(invoked) : \E q \in ToolPos : msgs[q].tool_call_id = invoked[a]

C27_Witness ==
    /\ rPc = "loop"
    /\ i = 2
    /\ Cardinality(ToolPos) = 4
    /\ Len(invoked) = 2
    /\ Outcome(script.calls[1]) = "parse"
    /\ Outcome(script.calls[2]) = "ok"

\* C28: the running list is append-only: the list sent in model call k+1 is
\* the list sent in call k, then the assistant tool-call message of round k,
\* then that round's tool messages; no step removes or rewrites an entry.
C28_AppendOnly ==
    [][/\ Len(msgs') >= Len(msgs)
       /\ rPc # "idle" => SubSeq(msgs', 1, Len(msgs)) = msgs
       /\ (nModelCalls >= 1 /\ nModelCalls' = nModelCalls + 1) =>
             LET n == Len(rSent)
                 c == Len(message.tool_calls)
             IN  /\ c > 0
                 /\ Len(rSent') = n + 1 + c
                 /\ SubSeq(rSent', 1, n) = rSent
                 /\ rSent'[n + 1] = ToParam(message)
                 /\ \A k \in 1..c :
                       /\ rSent'[n + 1 + k].role = RoleTool
                       /\ rSent'[n + 1 + k].tool_call_id = message.tool_calls[k].id]_vars

C28_Witness ==
    /\ nModelCalls = 3
    /\ Len(script.calls) = 2
    /\ Len(conv.messages) = 1
    /\ Len(rSent) = 8
    /\ rSent[3].role = RoleAssistant
    /\ rSent[6].role = RoleAssistant

(***************************************************************************)
(* StartConversation: no deadlock.                                         *)
(***************************************************************************)
TitleReceived == req # Empty /\ sPc \in {"recvReply", "applyTitle", "appendReply", "persist", "done"}
ReplyReceived == req # Empty /\ sPc \in {"applyTitle", "appendReply", "persist", "done"}
One(b) == IF b THEN 1 ELSE 0

\* What is sent is in the channel or received: a branch that has exited has
\* sent one result, a running one none; a branch ready to send can send.
SendsOnce ==
    /\ Len(titleCh) + One(TitleReceived) = One(gtPc = "exit")
    /\ Len(replyCh) + One(ReplyReceived) = One(grPc = "exit")
    /\ (gtPc = "calling" /\ tPc = "done") => CanSend(titleCh)
    /\ (grPc = "calling" /\ rPc = "done") => CanSend(replyCh)

\* C29: the coordinator is deadlock-free: whatever the two branches return,
\* each sends exactly one result without blocking on its channel, and the
\* handler returns in the end, with no branch left blocked on a send.
C29_DeadlockFree ==
    /\ []SendsOnce
    /\ <>(/\ sPc = "done"
          /\ gtPc \in {"none", "exit"}
          /\ grPc \in {"none", "exit"})

C29_Witness ==
    /\ sPc = "recvTitle"
    /\ grPc = "exit"
    /\ rRet.err = BackendErr
    /\ replyCh = <<Ret(Empty, BackendErr)>>
    /\ gtPc = "ready"
    /\ tPc = "off"

(***************************************************************************)
(* ToolWeatherForecast.Call: the days it asks the provider for.            *)
(***************************************************************************)
ForecastSent == fOut # ForecastPending /\ fOut.req # NoRequest
Whole(f) == f % Tenth = 0

\* C30: for every integer value of the days argument, and when it is absent,
\* the days sent to the provider lie in 1..7: a value in 1..7 is sent as it
\* is, a value above 7 as 7, a value of 0 or below, or none, as 3.
C30_DaysClamped ==
    (ForecastSent /\ Whole(DaysArg(fIn.args))) =>
        LET d == DaysArg(fIn.args) \div Tenth
            sent == fOut.req.days
        IN  /\ sent \in 1..MaxDays
            /\ d \in 1..MaxDays => sent = d
            /\ d > MaxDays => sent = MaxDays
            /\ d <= 0 => sent = DefaultDays
            /\ "days" \notin DOMAIN fIn.args => sent = DefaultDays

C30_Witness ==
    /\ fIn = [args |-> [location |-> "Bangkok", days |-> 8 * Tenth], key |-> TRUE]
    /\ fOut.req = [q |-> "Bangkok", days |-> MaxDays]
    /\ fOut.ret.err = Nil

====
